---- MODULE Spec2Model ----
(***************************************************************************)
(* Batch image pipeline of ceratora: ImageProcessor.processImages,         *)
(* processImage and compressToSize, in the three variants of the source:   *)
(*   "jsquash"   src/unnamed/part_005, lines   1..422 (codec modules,      *)
(*               lazily imported)                                          *)
(*   "offscreen" src/unnamed/part_005, lines 424..752                      *)
(*               (OffscreenCanvas.convertToBlob)                           *)
(*   "canvas"    src/lib/imageProcessor.ts (HTMLCanvasElement.toBlob,      *)
(*               qualities on the 0..1 scale, no AbortSignal)              *)
(* A quality is an integer number of units: one percent is Unit(variant)   *)
(* units, 1 for jsquash and offscreen, 128 for canvas, whose search        *)
(* halves the interval [0.1, 1.0] seven times (0.9 / 2^7 percent steps).   *)
(* One step of the model is one resumption of the async code: everything   *)
(* the code does between two awaits is one action.                         *)
(* Spec, SpecFit and SpecFitFair run the batch; SpecImage runs             *)
(* calculateDimensions and the corner mask for one decoded bitmap,         *)
(* SpecName runs generateFileName, SpecCodec runs the module loaders       *)
(* under several callers, SpecPng runs the colour quantization of          *)
(* compressPNG, SpecZip runs downloadAsZip, and SpecBox runs               *)
(* calculateDimensions in the double arithmetic of the code.               *)
(***************************************************************************)
EXTENDS Integers, Sequences, FiniteSets, TLC

VARIABLES
    variant,    \* which ImageProcessor is running
    opts,       \* ImageProcessingOptions; an omitted field is <<>>
    n,          \* files.length
    signal,     \* "none" (no AbortSignal passed), "live", "aborted"
    pc,         \* where processImages is suspended
    i,          \* loop index of processImages (0-based, as in the code)
    results,    \* ProcessedImage[] being built
    progress,   \* the onProgress calls made so far, <<processed, total>>
    started,    \* file -> number of times processImage was called for it
    status,     \* file -> "pending" | "ok" | the error caught in the loop
    cancelAt,   \* <<>> or <<c>>: where the batch was when abort() ran
    enc,        \* behaviour of the encoder on the file in flight
    lo,         \* compressToSize: minQuality
    hi,         \* compressToSize: maxQ / maxQuality
    attempts,   \* compressToSize: attempts
    best,       \* compressToSize: bestBlob
    bestQ,      \* compressToSize: bestQuality
    calls,      \* encode calls made for the file in flight
    probes,     \* the probes of the search so far: <<quality, fitted>>
    ret,        \* {blob, quality} handed back to processImage
    cache,      \* format -> state of the module promise _avif/_png/_webp/_jpeg
    imports,    \* format -> number of import() calls initiated
    avifSupported, \* canvas: what the 1x1 probe of checkFormatSupport gives
    rasters,    \* ImageBitmaps created and not yet closed
    bitmap,     \* <<imageBitmap.width, imageBitmap.height>>
    geom,       \* maxWidth, maxHeight, maintainAspectRatio, cornerRadius
    canvas,     \* <<>> or <<width, height>> of calculateDimensions
    clip,       \* <<>> (no clip path) or <<2 * effectiveRadius>>
    originalName, \* file.name, a sequence of characters
    fileName,   \* <<>> or <<the name generateFileName gives>>
    got,        \* caller -> format -> the module promise loadX() returned
    imageData,  \* compressPNG: <<a colour channel, alpha>> of a pixel
    quantized,  \* <<>> or <<the pixel after the quantization loop>>
    names,      \* downloadAsZip: file.name of the files behind images[]
    zip         \* <<>> or <<the archive: entry name -> index in images[]>>

vars == <<variant, opts, n, signal, pc, i, results, progress, started, status,
          cancelAt, enc, lo, hi, attempts, best, bestQ, calls, probes, ret,
          cache, imports, avifSupported, rasters, bitmap, geom, canvas, clip,
          originalName, fileName, got, imageData, quantized, names, zip>>

----------------------------------------------------------------------------
(* Bounds of the model *)

MaxFiles == 3
MaxCallers == 2
MaxDim == 6
MaxName == 4
MaxSide == 18

(* Program constants *)

ChannelMax == 255
Levels == 256

MinQuality == 10
CeilingAvif == 90
CeilingJsquash == 95
CeilingWebpOffscreen == 95
CeilingOffscreen == 98
MaxAttempts == 12
Window == 2
MaxAttemptsCanvas == 15
CanvasUnit == 128
PngQuality == 100
DefaultQuality == 80
KB == 1024
FullRadius == 9999

Formats == {"webp", "png", "jpeg", "avif"}
Variants == {"jsquash", "offscreen", "canvas"}

\* units per percent of quality
Unit(v) == IF v = "canvas" THEN CanvasUnit ELSE 1

\* format?: the offscreen variant has no avif
FormatsOf(v) == IF v = "offscreen" THEN Formats \ {"avif"} ELSE Formats

\* const { format = "webp", quality = 80, maxSizeKB } = options
Format == IF opts.format = <<>> THEN "webp" ELSE opts.format[1]
Quality == IF opts.quality = <<>> THEN DefaultQuality ELSE opts.quality[1]
SizeFitting == opts.maxSizeKB # <<>>
TargetSize == opts.maxSizeKB[1] * KB

----------------------------------------------------------------------------
(* The encoders.  An encoder behaviour is                                  *)
(*   "mono": a working encoder whose output size is non-decreasing in      *)
(*           quality: size low up to quality thr, size high above it;      *)
(*   "any":  every call may throw or give any size, also 0;                *)
(*   "fail": every call throws or gives an empty buffer.                   *)

Sizes == {0, KB, KB + 1}

Mono(t) == [kind |-> "mono", thr |-> t, low |-> KB, high |-> KB + 1]
AnyEnc == [kind |-> "any", thr |-> 0, low |-> 0, high |-> 0]
FailEnc == [kind |-> "fail", thr |-> 0, low |-> 0, high |-> 0]
NoEnc == [kind |-> "none", thr |-> 0, low |-> 0, high |-> 0]

AllEncoders == {Mono(t) : t \in (MinQuality - 1)..PngQuality} \cup {AnyEnc, FailEnc}
FewEncoders == {Mono(MinQuality - 1), Mono(50), FailEnc}

Thrown == [ok |-> FALSE, size |-> 0]
Encoded(s) == [ok |-> TRUE, size |-> s]

\* what the codec itself does when asked for quality q (in units of 1/u percent)
Raw(e, q, u) ==
    CASE e.kind = "mono" -> {Encoded(IF q <= e.thr * u THEN e.low ELSE e.high)}
      [] e.kind = "any" -> {Thrown} \cup {Encoded(s) : s \in Sizes}
      [] OTHER -> {Thrown, Encoded(0)}

\* compressPNGOffscreen / compressPNG: the quality picks one of five colour
\* depths (>= 0.9, >= 0.7, >= 0.5, >= 0.3, below), and the output is a
\* function of the colour depth alone: BandFloor is
\* the lowest quality (percent) with the colour depth of quality q
BandFloor(q, u) ==
    IF q >= 90 * u THEN 90
    ELSE IF q >= 70 * u THEN 70
    ELSE IF q >= 50 * u THEN 50
    ELSE IF q >= 30 * u THEN 30
    ELSE 0

\* convertToBlob: normalizedQuality is capped for webp and jpeg
Normalized(f, q) ==
    IF f = "webp" /\ q > CeilingWebpOffscreen THEN CeilingWebpOffscreen
    ELSE IF f = "jpeg" /\ q > CeilingOffscreen THEN CeilingOffscreen
    ELSE q

\* jsquash: encodeImageData -> encodeAvif / encodePng / encodeWebp / encodeJpeg
EncodeJsquash(e, f, q, c) ==
    IF c[f] = "rejected" THEN {Thrown}
    ELSE IF f = "png" THEN Raw(e, PngQuality, 1)
    ELSE Raw(e, q, 1)

\* offscreen: convertToBlob
EncodeOffscreen(e, f, q) ==
    IF f = "png" THEN Raw(e, BandFloor(Normalized(f, q), 1), 1)
    ELSE {IF o.ok /\ o.size = 0 THEN Thrown ELSE o : o \in Raw(e, Normalized(f, q), 1)}

\* canvas: canvasToBlob (png below quality 1.0 goes through compressPNG)
EncodeCanvas(e, f, q) ==
    IF f = "png" THEN Raw(e, BandFloor(q, CanvasUnit), 1)
    ELSE {IF f = "avif" /\ o.ok /\ o.size = 0 THEN Thrown ELSE o : o \in Raw(e, q, CanvasUnit)}

EncodeImageData(v, e, f, q, c) ==
    CASE v = "jsquash" -> EncodeJsquash(e, f, q, c)
      [] v = "offscreen" -> EncodeOffscreen(e, f, q)
      [] OTHER -> EncodeCanvas(e, f, q)

NoBlob == [q |-> 0, size |-> 0, call |-> 0]
Blob(q, s, k) == [q |-> q, size |-> s, call |-> k]
NoRet == [blob |-> NoBlob, quality |-> 0]

----------------------------------------------------------------------------
(* compressToSize *)

\* no bypass at all
NoPngBypass(v, f) == FALSE

\* the search is skipped for png (jsquash only)
PngBypass(v, f) == v = "jsquash" /\ f = "png"

\* let minQuality = 10 (canvas: 0.1)
Floor(v) == MinQuality * Unit(v)

\* one ceiling per format, the same in every variant
CeilingPerFormat(v, f) ==
    IF v = "canvas" THEN 100 * CanvasUnit
    ELSE CASE f = "webp" -> CeilingWebpOffscreen
           [] f = "avif" -> CeilingAvif
           [] OTHER -> CeilingOffscreen

\* the initial maxQ / maxQuality (canvas: 1.0)
Ceiling(v, f) ==
    CASE v = "jsquash" -> (IF f = "avif" THEN CeilingAvif ELSE CeilingJsquash)
      [] v = "offscreen" -> (IF f = "webp" THEN CeilingWebpOffscreen ELSE CeilingOffscreen)
      [] OTHER -> 100 * CanvasUnit

\* a probe at the upper end of the window
TopOfWindow(v, l, h) == h

\* Math.round((minQuality + maxQ) / 2); canvas: (minQuality + maxQuality) / 2
CurrentQuality(v, l, h) == IF v = "canvas" THEN (l + h) \div 2 ELSE (l + h + 1) \div 2

\* the loop going on until the window is empty
LoopUntilEmpty(v, a, l, h, sig) ==
    IF v = "canvas"
    THEN a < MaxAttemptsCanvas /\ h - l > 0
    ELSE a < MaxAttempts /\ h - l > 0

\* a search loop that also stops on abort
LoopUnlessAborted(v, a, l, h, sig) ==
    /\ sig # "aborted"
    /\ IF v = "canvas"
       THEN a < MaxAttemptsCanvas /\ h - l > CanvasUnit
       ELSE a < MaxAttempts /\ h - l > Window

\* a loop that goes on while the window is wider than 1
LoopToAdjacent(v, a, l, h, sig) ==
    IF v = "canvas"
    THEN a < MaxAttemptsCanvas /\ h - l > CanvasUnit
    ELSE a < MaxAttempts /\ h - l > 1

\* attempts < 12 && maxQ - minQuality > 2;
\* canvas: attempts < 15 && maxQuality - minQuality > 0.01
LoopContinues(v, a, l, h, sig) ==
    IF v = "canvas"
    THEN a < MaxAttemptsCanvas /\ h - l > CanvasUnit
    ELSE a < MaxAttempts /\ h - l > Window

\* the quality returned: bestQuality; canvas: Math.round(bestQuality * 100)
Returned(v, q) == IF v = "canvas" THEN (q + CanvasUnit \div 2) \div CanvasUnit ELSE q

\* blob.size < targetSize
FitsStrictly(size, target) == size < target

\* blob.size <= targetSize
Fits(size, target) == size <= target

\* a fallback at the upper end of the window
FallbackAtMax(l, h) == h

\* the quality of the fallback encode
FallbackQuality(l, h) == l

----------------------------------------------------------------------------
(* processImage / processImages *)

\* appliedQuality of the manual branch
ManualApplied(f, q) == q

\* a loop that never looks at the signal
NeverAborted(sig) == FALSE

\* if (signal?.aborted) break
Aborted(sig) == sig = "aborted"

\* onProgress?.(i + 1, files.length)
ProgressArgs(idx, done, total) == <<idx + 1, total>>

\* results.unshift(processed)
PushFront(rs, r) == <<r>> \o rs

\* results.push(processed)
Push(rs, r) == Append(rs, r)

\* a catch block that gives the batch up
StopOnError == "done"

\* the catch block of the loop: log, and go on with the next file
AfterCatch == "check"

\* a loader that forgets a rejected promise and imports again
LoadCacheRetrying(c, f) ==
    IF c[f] \in {"null", "rejected"} THEN [c EXCEPT ![f] = "pending"] ELSE c

\* loadAvif / loadPng / loadWebp / loadJpeg:  _x ??= import(...)
LoadCache(c, f) == IF c[f] = "null" THEN [c EXCEPT ![f] = "pending"] ELSE c
\* _x = import(...) on every call
ImportAlways(c, m, f) == [m EXCEPT ![f] = @ + 1]

LoadImports(c, m, f) == IF c[f] = "null" THEN [m EXCEPT ![f] = @ + 1] ELSE m

NeedsCodec == variant = "jsquash"

ProcessedImage(b, q) ==
    [idx |-> i + 1, format |-> Format, appliedQuality |-> q,
     size |-> b.size, blobQ |-> b.q]

ResetFile ==
    /\ enc' = NoEnc
    /\ lo' = 0
    /\ hi' = 0
    /\ attempts' = 0
    /\ best' = NoBlob
    /\ bestQ' = 0
    /\ calls' = 0
    /\ probes' = <<>>
    /\ ret' = NoRet

FileVars == <<enc, lo, hi, attempts, best, bestQ, calls, probes, ret>>
BatchVars == <<variant, opts, n, avifSupported>>
LoopVars == <<i, results, progress, status>>
CodecVars == <<cache, imports>>
ImageVars == <<bitmap, geom, canvas, clip>>
NameVars == <<originalName, fileName>>
PixelVars == <<imageData, quantized>>
ZipVars == <<names, zip>>
OtherVars == <<ImageVars, NameVars, got, PixelVars, ZipVars>>

\* an exception of processImage, caught in processImages
Catch(why) ==
    /\ status' = [status EXCEPT ![i + 1] = why]
    /\ i' = i + 1
    /\ pc' = AfterCatch
    /\ ResetFile
    /\ UNCHANGED <<results, progress>>

----------------------------------------------------------------------------
(* Initial states *)

\* options without maxWidth, maxHeight, maintainAspectRatio, cornerRadius
NoResize ==
    [maxWidth |-> <<>>, maxHeight |-> <<>>,
     maintainAspectRatio |-> <<>>, cornerRadius |-> <<>>]

\* the callers of loadAvif / loadPng / loadWebp / loadJpeg: the batches
\* running in the page
Callers == 1..MaxCallers

NothingGot == [k \in Callers |-> [f \in Formats |-> 0]]

\* no pixel data is being quantized
NoPixels == imageData = <<0, 0>> /\ quantized = <<>>

\* no archive is being written
NoArchive == names = <<>> /\ zip = <<>>

OptionSets(v) ==
    [format : {<<>>} \cup {<<f>> : f \in FormatsOf(v)},
     quality : {<<>>, <<50>>, <<100>>},
     maxSizeKB : {<<>>, <<1>>, <<2>>}]

InitWith(N) ==
    /\ variant \in Variants
    /\ opts \in {o \in OptionSets(variant) : o.maxSizeKB = <<>> \/ o.quality = <<>>}
    /\ n \in N
    /\ signal \in (IF variant = "canvas" THEN {"none"} ELSE {"none", "live"})
    /\ pc = "start"
    /\ i = 0
    /\ results = <<>>
    /\ progress = <<>>
    /\ started = [k \in 1..n |-> 0]
    /\ status = [k \in 1..n |-> "pending"]
    /\ cancelAt = <<>>
    /\ enc = NoEnc
    /\ lo = 0
    /\ hi = 0
    /\ attempts = 0
    /\ best = NoBlob
    /\ bestQ = 0
    /\ calls = 0
    /\ probes = <<>>
    /\ ret = NoRet
    /\ cache = [f \in Formats |-> "null"]
    /\ imports = [f \in Formats |-> 0]
    /\ avifSupported \in (IF variant = "canvas" /\ Format = "avif" THEN BOOLEAN ELSE {TRUE})
    /\ rasters = 0
    /\ bitmap = <<1, 1>>
    /\ geom = NoResize
    /\ canvas = <<>>
    /\ clip = <<>>
    /\ originalName = <<"a">>
    /\ fileName = <<>>
    /\ got = NothingGot
    /\ NoPixels
    /\ NoArchive

Init == InitWith(0..MaxFiles)

InitFit == InitWith({1})

----------------------------------------------------------------------------
(* Actions *)

\* processImages up to its first await
Start ==
    /\ pc = "start"
    /\ IF NeedsCodec /\ opts.format # <<>>
       THEN /\ cache' = LoadCache(cache, Format)
            /\ imports' = LoadImports(cache, imports, Format)
            /\ pc' = "warmup"
       ELSE /\ pc' = "check"
            /\ UNCHANGED CodecVars
    /\ UNCHANGED <<BatchVars, OtherVars, rasters, signal, LoopVars, started, cancelAt, FileVars>>

\* the dynamic import settles
ImportSettles ==
    /\ \E f \in Formats :
          /\ cache[f] = "pending"
          /\ \E r \in {"ok", "rejected"} : cache' = [cache EXCEPT ![f] = r]
    /\ UNCHANGED <<BatchVars, OtherVars, rasters, signal, pc, LoopVars, started, cancelAt, FileVars, imports>>

\* await warmupEncoder(options.format) resumes
WarmupSettled ==
    /\ pc = "warmup"
    /\ cache[Format] \in {"ok", "rejected"}
    /\ pc' = IF cache[Format] = "ok" THEN "check" ELSE "rejected"
    /\ UNCHANGED <<BatchVars, OtherVars, rasters, signal, LoopVars, started, cancelAt, FileVars, CodecVars>>

\* loop head: i < files.length, the abort check, and the call of processImage
Check ==
    /\ pc = "check"
    /\ IF i >= n \/ Aborted(signal)
       THEN /\ pc' = "done"
            /\ UNCHANGED started
       ELSE /\ pc' = IF variant = "canvas" /\ Format = "avif" THEN "support" ELSE "decode"
            /\ started' = [started EXCEPT ![i + 1] = @ + 1]
    /\ UNCHANGED <<BatchVars, OtherVars, rasters, signal, LoopVars, cancelAt, FileVars, CodecVars>>

\* canvas: await this.checkFormatSupport("avif") at the head of processImage
CheckSupport ==
    /\ pc = "support"
    /\ IF avifSupported
       THEN pc' = "decode" /\ UNCHANGED <<LoopVars, FileVars>>
       ELSE Catch("unsupported")
    /\ UNCHANGED <<BatchVars, OtherVars, rasters, signal, started, cancelAt, CodecVars>>

\* compressToSize up to its first await
EnterCompress ==
    IF PngBypass(variant, Format)
    THEN /\ pc' = "pngfit"
         /\ UNCHANGED <<lo, hi>>
    ELSE /\ lo' = Floor(variant)
         /\ hi' = Ceiling(variant, Format)
         /\ pc' = IF LoopContinues(variant, 0, Floor(variant), Ceiling(variant, Format), signal)
                  THEN "probe" ELSE "fallback"

\* an ImageBitmap is created by createImageBitmap and released by close();
\* the canvas variant decodes into an HTMLImageElement and has none
Opened(v, r) == IF v = "canvas" THEN r ELSE r + 1
Closed(v, r) == IF v = "canvas" THEN r ELSE r - 1

\* createImageBitmap / loadImage settles: the file is decoded, or the
\* promise rejects
Decode ==
    /\ pc = "decode"
    /\ \/ Catch("decode") /\ UNCHANGED rasters
       \/ /\ rasters' = Opened(variant, rasters)
          /\ pc' = "draw"
          /\ UNCHANGED <<LoopVars, FileVars>>
    /\ UNCHANGED <<BatchVars, OtherVars, signal, started, cancelAt, CodecVars>>

\* processImage resumes with the bitmap: calculateDimensions, the canvas
\* and its context, the clip path, drawImage and imageBitmap.close(), all
\* synchronous.  getContext gives null when the context cannot be created
\* (the code asserts it away with "as" and "!"), and ctx.clearRect then
\* throws with the bitmap still open.
Draw(E) ==
    /\ pc = "draw"
    /\ \/ Catch("draw") /\ UNCHANGED rasters
       \/ /\ \E e \in E : enc' = e
          /\ rasters' = Closed(variant, rasters)
          /\ IF SizeFitting
             THEN EnterCompress
             ELSE pc' = "encode" /\ UNCHANGED <<lo, hi>>
          /\ UNCHANGED <<LoopVars, attempts, best, bestQ, calls, probes, ret>>
    /\ UNCHANGED <<BatchVars, OtherVars, signal, started, cancelAt, CodecVars>>

AtEncode == pc \in {"encode", "pngfit", "probe", "fallback"}

\* the first encode of a format calls loadX(), which starts the import
LoadCodec ==
    /\ AtEncode
    /\ NeedsCodec
    /\ cache[Format] = "null"
    /\ cache' = LoadCache(cache, Format)
    /\ imports' = LoadImports(cache, imports, Format)
    /\ UNCHANGED <<BatchVars, OtherVars, rasters, signal, pc, LoopVars, started, cancelAt, FileVars>>

CodecReady == NeedsCodec => cache[Format] \in {"ok", "rejected"}

\* the manual branch: encodeImageData / convertToBlob at options.quality
ManualEncode ==
    /\ pc = "encode"
    /\ CodecReady
    /\ \E o \in EncodeImageData(variant, enc, Format, Quality * Unit(variant), cache) :
          IF o.ok
          THEN /\ ret' = [blob |-> Blob(Quality * Unit(variant), o.size, calls + 1),
                          quality |-> ManualApplied(Format, Quality)]
               /\ calls' = calls + 1
               /\ pc' = "ret"
               /\ UNCHANGED <<LoopVars, enc, lo, hi, attempts, best, bestQ, probes>>
          ELSE Catch("encode")
    /\ UNCHANGED <<BatchVars, OtherVars, rasters, signal, started, cancelAt, CodecVars>>

\* compressToSize, png: one lossless encode
PngFit ==
    /\ pc = "pngfit"
    /\ CodecReady
    /\ \E o \in EncodeImageData(variant, enc, "png", PngQuality, cache) :
          IF o.ok
          THEN /\ ret' = [blob |-> Blob(PngQuality, o.size, calls + 1),
                          quality |-> PngQuality]
               /\ calls' = calls + 1
               /\ pc' = "ret"
               /\ UNCHANGED <<LoopVars, enc, lo, hi, attempts, best, bestQ, probes>>
          ELSE Catch("encode")
    /\ UNCHANGED <<BatchVars, OtherVars, rasters, signal, started, cancelAt, CodecVars>>

\* one iteration of the search loop
Probe ==
    /\ pc = "probe"
    /\ CodecReady
    /\ LET mid == CurrentQuality(variant, lo, hi) IN
       \E o \in EncodeImageData(variant, enc, Format, mid, cache) :
          IF o.ok
          THEN LET fit == Fits(o.size, TargetSize)
                   l2 == IF fit THEN mid ELSE lo
                   h2 == IF fit THEN hi ELSE mid
                   b2 == IF fit THEN Blob(mid, o.size, calls + 1) ELSE best
                   q2 == IF fit THEN mid ELSE bestQ
               IN /\ lo' = l2
                  /\ hi' = h2
                  /\ best' = b2
                  /\ bestQ' = q2
                  /\ attempts' = attempts + 1
                  /\ calls' = calls + 1
                  /\ probes' = Append(probes, <<mid, fit>>)
                  /\ IF LoopContinues(variant, attempts + 1, l2, h2, signal)
                     THEN pc' = "probe" /\ UNCHANGED ret
                     ELSE IF b2 = NoBlob
                     THEN pc' = "fallback" /\ UNCHANGED ret
                     ELSE pc' = "ret" /\ ret' = [blob |-> b2, quality |-> Returned(variant, q2)]
                  /\ UNCHANGED <<LoopVars, enc>>
          ELSE Catch("encode")
    /\ UNCHANGED <<BatchVars, OtherVars, rasters, signal, started, cancelAt, CodecVars>>

\* if (!bestBlob): encode at minQuality
Fallback ==
    /\ pc = "fallback"
    /\ CodecReady
    /\ LET q == FallbackQuality(lo, hi) IN
       \E o \in EncodeImageData(variant, enc, Format, q, cache) :
          IF o.ok
          THEN /\ ret' = [blob |-> Blob(q, o.size, calls + 1), quality |-> Returned(variant, lo)]
               /\ best' = Blob(q, o.size, calls + 1)
               /\ bestQ' = lo
               /\ calls' = calls + 1
               /\ pc' = "ret"
               /\ UNCHANGED <<LoopVars, enc, lo, hi, attempts, probes>>
          ELSE Catch("encode")
    /\ UNCHANGED <<BatchVars, OtherVars, rasters, signal, started, cancelAt, CodecVars>>

\* processImage returns: results.push, onProgress, i++
Finish ==
    /\ pc = "ret"
    /\ results' = Push(results, ProcessedImage(ret.blob, ret.quality))
    /\ progress' = Append(progress, ProgressArgs(i, Len(results) + 1, n))
    /\ status' = [status EXCEPT ![i + 1] = "ok"]
    /\ i' = i + 1
    /\ pc' = "check"
    /\ ResetFile
    /\ UNCHANGED <<BatchVars, OtherVars, rasters, signal, started, cancelAt, CodecVars>>

\* the caller's controller.abort(), at any moment of the batch
Cancel ==
    /\ signal = "live"
    /\ pc \notin {"done", "rejected"}
    /\ signal' = "aborted"
    /\ cancelAt' = <<[i |-> i, pc |-> pc, calls |-> calls,
                       results |-> Len(results), progress |-> Len(progress)]>>
    /\ UNCHANGED <<BatchVars, OtherVars, rasters, pc, LoopVars, started, FileVars, CodecVars>>

NextWith(E) ==
    \/ Start
    \/ ImportSettles
    \/ WarmupSettled
    \/ Check
    \/ CheckSupport
    \/ Decode
    \/ Draw(E)
    \/ LoadCodec
    \/ ManualEncode
    \/ PngFit
    \/ Probe
    \/ Fallback
    \/ Finish
    \/ Cancel

Next == NextWith(FewEncoders)

NextFit == NextWith(AllEncoders)

Spec == Init /\ [][Next]_vars

SpecFit == InitFit /\ [][NextFit]_vars

\* every awaited promise settles and its continuation runs; abort() is up
\* to the user
Resume(E) ==
    \/ Start
    \/ ImportSettles
    \/ WarmupSettled
    \/ Check
    \/ CheckSupport
    \/ Decode
    \/ Draw(E)
    \/ LoadCodec
    \/ ManualEncode
    \/ PngFit
    \/ Probe
    \/ Fallback
    \/ Finish

SpecFitFair == SpecFit /\ WF_vars(Resume(AllEncoders))

----------------------------------------------------------------------------
(* The page that runs the batch: it passes controller.signal, and looks at *)
(* the signal again when processImages has settled                         *)

\* the toast of the page: error when the batch rejected; with the signal
\* aborted, cancelled k/n or cancelledAll; success otherwise
Toast ==
    IF pc = "rejected" THEN "error"
    ELSE IF signal = "aborted"
    THEN (IF Len(results) > 0 THEN "cancelled" ELSE "cancelledAll")
    ELSE "success"

\* the batch was started by the page and has settled
Reported == pc \in {"done", "rejected"} /\ signal # "none" /\ n >= 1

----------------------------------------------------------------------------
(* calculateDimensions.  width and height are kept exact, as fractions     *)
(* <<numerator, denominator>>; for source dimensions and bounds up to 16   *)
(* the doubles of the code (ratio = w / h, width / ratio, height * ratio,  *)
(* Math.round) give the same integers as the exact values.                 *)

\* if (maxWidth): an omitted bound and a bound of 0 are both falsy
Truthy(m) == m # <<>> /\ m[1] # 0

\* width > maxWidth, height > maxHeight
Exceeds(x, m) == x[1] > m * x[2]

\* Math.floor
Truncate(x) == x[1] \div x[2]

\* Math.round of a non-negative fraction
Round(x) == (2 * x[1] + x[2]) \div (2 * x[2])

\* width = maxWidth; height = width / ratio
ClampWidth(d, sw, sh, mw) ==
    IF Exceeds(d.width, mw)
    THEN [width |-> <<mw, 1>>, height |-> <<mw * sh, sw>>]
    ELSE d

\* no second clamp
NoClampHeight(d, sw, sh, mh) == d

\* height = maxHeight; width = height * ratio
ClampHeight(d, sw, sh, mh) ==
    IF Exceeds(d.height, mh)
    THEN [width |-> <<mh * sw, sh>>, height |-> <<mh, 1>>]
    ELSE d

\* a bound that only ever shrinks
ShrinkOnly(v, m, x) == IF Truthy(m) /\ m[1] < x THEN m[1] ELSE x

\* maxWidth ?? width (jsquash); maxWidth || width (offscreen, canvas)
OrElse(v, m, x) ==
    IF v = "jsquash"
    THEN (IF m # <<>> THEN m[1] ELSE x)
    ELSE (IF Truthy(m) THEN m[1] ELSE x)

CalculateDimensions(v, sw, sh, mw, mh, keep) ==
    LET d0 == [width |-> <<sw, 1>>, height |-> <<sh, 1>>]
        d == IF keep
             THEN IF Truthy(mw) /\ Truthy(mh)
                  THEN ClampHeight(ClampWidth(d0, sw, sh, mw[1]), sw, sh, mh[1])
                  ELSE IF Truthy(mw) THEN ClampWidth(d0, sw, sh, mw[1])
                  ELSE IF Truthy(mh) THEN ClampHeight(d0, sw, sh, mh[1])
                  ELSE d0
             ELSE [width |-> <<OrElse(v, mw, sw), 1>>,
                   height |-> <<OrElse(v, mh, sh), 1>>]
    IN IF ~Truthy(mw) /\ ~Truthy(mh)
       THEN <<sw, sh>>
       ELSE <<Round(d.width), Round(d.height)>>

----------------------------------------------------------------------------
(* calculateDimensions in the arithmetic of the code.  Every number of the *)
(* code is an IEEE-754 double: 53 bits of mantissa, and each division and  *)
(* multiplication rounded to the nearest double, ties to the even          *)
(* mantissa.  A mantissa is a pair <<high, low>> standing for              *)
(* high * 2^30 + low, and a positive double is [m |-> mantissa, e |->      *)
(* exponent] with value m * 2^e and 2^52 <= m < 2^53.                      *)

Limb == 1073741824
MantissaHigh == 4194304

WideAdd(x, y) ==
    LET l == x[2] + y[2]
    IN <<x[1] + y[1] + l \div Limb, l % Limb>>

\* x - y, for x >= y
WideSub(x, y) ==
    IF x[2] >= y[2]
    THEN <<x[1] - y[1], x[2] - y[2]>>
    ELSE <<x[1] - y[1] - 1, x[2] + Limb - y[2]>>

WideLess(x, y) == x[1] < y[1] \/ (x[1] = y[1] /\ x[2] < y[2])

WideTwice(x) == WideAdd(x, x)

WideHalf(x) == <<x[1] \div 2, x[2] \div 2 + (x[1] % 2) * (Limb \div 2)>>

WideOdd(x) == x[2] % 2 = 1

RECURSIVE WideTimes(_, _)
WideTimes(x, k) == IF k = 0 THEN <<0, 0>> ELSE WideAdd(x, WideTimes(x, k - 1))

\* the integer h * 2^(e + 30), h >= 1, as a double
RECURSIVE Normalized53(_, _)
Normalized53(h, e) ==
    IF h >= MantissaHigh THEN [m |-> <<h, 0>>, e |-> e]
    ELSE Normalized53(2 * h, e - 1)

\* an integer k >= 1 of the code, which is a double
FromInt(k) == Normalized53(k, -30)

\* a mantissa that reached 2^53 is halved
Renormalized(r, e) ==
    IF r[1] >= 2 * MantissaHigh
    THEN [m |-> WideHalf(r), e |-> e + 1]
    ELSE [m |-> r, e |-> e]

\* q * 2^e, q of 54 bits, rounded to 53 bits: to nearest, ties to even;
\* sticky says that bits below q were cut off
RoundToEven(q, sticky, e) ==
    Renormalized(IF WideOdd(q) /\ (sticky \/ WideOdd(WideHalf(q)))
                 THEN WideAdd(WideHalf(q), <<0, 1>>)
                 ELSE WideHalf(q),
                 e + 1)

\* long division, qr = <<quotient, remainder>>: k more bits of the quotient
\* of remainder / d, then the rounding
RECURSIVE DivBits(_, _, _, _)
DivBits(qr, d, k, e) ==
    IF k = 0 THEN RoundToEven(qr[1], qr[2] # <<0, 0>>, e)
    ELSE IF WideLess(WideTwice(qr[2]), d)
    THEN DivBits(<<WideTwice(qr[1]), WideTwice(qr[2])>>, d, k - 1, e)
    ELSE DivBits(<<WideAdd(WideTwice(qr[1]), <<0, 1>>), WideSub(WideTwice(qr[2]), d)>>,
                 d, k - 1, e)

\* a / b: 54 bits of the quotient of the mantissas, rounded
DoubleDiv(a, b) ==
    IF WideLess(a.m, b.m)
    THEN DivBits(<<<<0, 0>>, a.m>>, b.m, 54, a.e - b.e - 54)
    ELSE DivBits(<<<<0, 1>>, WideSub(a.m, b.m)>>, b.m, 53, a.e - b.e - 53)

\* p * 2^e cut down to 54 bits, then the rounding
RECURSIVE Shrink(_, _, _)
Shrink(p, sticky, e) ==
    IF p[1] < 4 * MantissaHigh THEN RoundToEven(p, sticky, e)
    ELSE Shrink(WideHalf(p), sticky \/ WideOdd(p), e + 1)

\* k * b, for an integer 1 <= k < 64
DoubleTimes(k, b) == Shrink(WideTwice(WideTimes(b.m, k)), FALSE, b.e - 1)

\* m * 2^e, e < 0, in halves: <<floor(2 * m * 2^e), whether bits were cut>>
RECURSIVE InHalves(_, _, _)
InHalves(m, e, sticky) ==
    IF e >= -1 THEN <<m[2], sticky>>
    ELSE IF e <= -31 THEN InHalves(<<0, m[1]>>, e + 30, sticky \/ m[2] # 0)
    ELSE InHalves(WideHalf(m), e + 1, sticky \/ WideOdd(m))

\* Math.round(x): floor(x + 0.5)
MathRound(x) == (InHalves(x.m, x.e, FALSE)[1] + 1) \div 2

\* h halves, or more when bits were cut, are more than k
MoreThan(h, k) == h[1] > 2 * k \/ (h[1] = 2 * k /\ h[2])

\* x > k, for an integer k
Greater(x, k) == MoreThan(InHalves(x.m, x.e, FALSE), k)

\* if (width > maxWidth) { width = maxWidth; height = width / ratio }
ClampWidthDouble(sw, sh, mw, ratio) ==
    IF sw > mw
    THEN [width |-> FromInt(mw), height |-> DoubleDiv(FromInt(mw), ratio)]
    ELSE [width |-> FromInt(sw), height |-> FromInt(sh)]

\* if (height > maxHeight) { height = maxHeight; width = height * ratio }
ClampHeightDouble(d, mh, ratio) ==
    IF Greater(d.height, mh)
    THEN [width |-> DoubleTimes(mh, ratio), height |-> FromInt(mh)]
    ELSE d

\* { width: Math.round(width), height: Math.round(height) }
RoundBoth(d) == <<MathRound(d.width), MathRound(d.height)>>

ClampBoth(sw, sh, mw, mh, ratio) ==
    RoundBoth(ClampHeightDouble(ClampWidthDouble(sw, sh, mw, ratio), mh, ratio))

\* the branch of calculateDimensions with maintainAspectRatio and both
\* bounds: const ratio = width / height; the clamp of the width, then the
\* clamp of the height; Math.round of both
CalculateDimensionsDouble(sw, sh, mw, mh) ==
    ClampBoth(sw, sh, mw, mh, DoubleDiv(FromInt(sw), FromInt(sh)))

\* const { cornerRadius = 0, maintainAspectRatio = true } = options
CornerRadius == IF geom.cornerRadius = <<>> THEN 0 ELSE geom.cornerRadius[1]
MaintainAspectRatio ==
    IF geom.maintainAspectRatio = <<>> THEN TRUE ELSE geom.maintainAspectRatio[1]

Min(a, b) == IF a <= b THEN a ELSE b

\* a radius clamped to half the longer side
RadiusOfLongerSide(r, w, h) == Min(2 * r, IF w >= h THEN w ELSE h)

\* Math.min(cornerRadius, Math.min(width, height) / 2), in half pixels
EffectiveRadius(r, w, h) == Min(2 * r, Min(w, h))

----------------------------------------------------------------------------
(* generateFileName.  A name is a sequence of characters; the format is    *)
(* one more element, appended after the "." of the template string.        *)

Chars == {"p", "J", ".", "/"}

\* a pattern /\..*$/, which matches from the first "."
MatchFromFirstDot(s, k) == s[k] = "."

\* /\.[^/.]+$/ matches at k: a ".", then one or more characters up to the
\* end of the name, none of them "/" or "."
MatchAt(s, k) ==
    /\ s[k] = "."
    /\ k < Len(s)
    /\ \A j \in (k + 1)..Len(s) : s[j] \notin {"/", "."}

\* originalName.replace(re, ""): the leftmost match is removed
Replace(s) ==
    LET ks == {k \in 1..Len(s) : MatchAt(s, k)}
    IN IF ks = {} THEN s
       ELSE SubSeq(s, 1, (CHOOSE k \in ks : \A j \in ks : k <= j) - 1)

\* `${nameWithoutExt}.${format}`
GenerateFileName(s, f) == Replace(s) \o <<".", f>>

RECURSIVE NamesOf(_)
NamesOf(len) ==
    IF len = 0 THEN {<<>>}
    ELSE LET shorter == NamesOf(len - 1)
         IN shorter \cup {Append(s, c) : s \in {t \in shorter : Len(t) = len - 1},
                                          c \in Chars}

----------------------------------------------------------------------------
(* processImage from the decoded bitmap to the clip path, for one file and *)
(* every choice of the resize options                                      *)

MainVars == <<BatchVars, signal, LoopVars, started, cancelAt, FileVars,
              CodecVars, rasters>>

NoOptions == [format |-> <<>>, quality |-> <<>>, maxSizeKB |-> <<>>]

\* no batch is running
Idle ==
    /\ n = 0
    /\ signal = "none"
    /\ i = 0
    /\ results = <<>>
    /\ progress = <<>>
    /\ started = [k \in 1..n |-> 0]
    /\ status = [k \in 1..n |-> "pending"]
    /\ cancelAt = <<>>
    /\ enc = NoEnc
    /\ lo = 0
    /\ hi = 0
    /\ attempts = 0
    /\ best = NoBlob
    /\ bestQ = 0
    /\ calls = 0
    /\ probes = <<>>
    /\ ret = NoRet
    /\ cache = [f \in Formats |-> "null"]
    /\ imports = [f \in Formats |-> 0]
    /\ avifSupported = TRUE
    /\ rasters = 0

Bound == {<<>>} \cup {<<m>> : m \in 0..MaxDim}

ResizeSets ==
    [maxWidth : Bound,
     maxHeight : Bound,
     maintainAspectRatio : {<<>>, <<TRUE>>, <<FALSE>>},
     cornerRadius : {<<>>, <<FullRadius>>} \cup {<<r>> : r \in 0..(MaxDim \div 2 + 1)}]

InitImage ==
    /\ variant \in Variants
    /\ opts = NoOptions
    /\ pc = "resize"
    /\ Idle
    /\ bitmap \in (1..MaxDim) \X (1..MaxDim)
    /\ geom \in ResizeSets
    /\ canvas = <<>>
    /\ clip = <<>>
    /\ originalName = <<"a">>
    /\ fileName = <<>>
    /\ got = NothingGot
    /\ NoPixels
    /\ NoArchive

\* const { width, height } = this.calculateDimensions(...)
Resize ==
    /\ pc = "resize"
    /\ canvas' = CalculateDimensions(variant, bitmap[1], bitmap[2], geom.maxWidth,
                                     geom.maxHeight, MaintainAspectRatio)
    /\ pc' = "mask"
    /\ UNCHANGED <<MainVars, bitmap, geom, clip, NameVars, got, PixelVars, ZipVars>>

\* if (cornerRadius > 0) { applyRoundedCorners(...); ctx.clip() }
Mask ==
    /\ pc = "mask"
    /\ clip' = IF CornerRadius > 0
               THEN <<EffectiveRadius(CornerRadius, canvas[1], canvas[2])>>
               ELSE <<>>
    /\ pc' = "drawn"
    /\ UNCHANGED <<MainVars, bitmap, geom, canvas, NameVars, got, PixelVars, ZipVars>>

NextImage ==
    \/ Resize
    \/ Mask

SpecImage == InitImage /\ [][NextImage]_vars

----------------------------------------------------------------------------
(* calculateDimensions with maintainAspectRatio and both bounds, in the    *)
(* doubles of the code, for sources of up to MaxSide pixels a side and     *)
(* bounds up to the source (a bound above the source side never clamps)    *)

InitBox ==
    /\ variant = "jsquash"
    /\ opts = NoOptions
    /\ pc = "box"
    /\ Idle
    /\ bitmap \in (1..MaxSide) \X (1..MaxSide)
    /\ geom \in {g \in [maxWidth : {<<m>> : m \in 1..MaxSide},
                         maxHeight : {<<m>> : m \in 1..MaxSide},
                         maintainAspectRatio : {<<>>},
                         cornerRadius : {<<>>}] :
                     g.maxWidth[1] <= bitmap[1] /\ g.maxHeight[1] <= bitmap[2]}
    /\ canvas = <<>>
    /\ clip = <<>>
    /\ originalName = <<"a">>
    /\ fileName = <<>>
    /\ got = NothingGot
    /\ NoPixels
    /\ NoArchive

\* const { width, height } = this.calculateDimensions(...)
ResizeBox ==
    /\ pc = "box"
    /\ canvas' = CalculateDimensionsDouble(bitmap[1], bitmap[2],
                                           geom.maxWidth[1], geom.maxHeight[1])
    /\ pc' = "boxed"
    /\ UNCHANGED <<MainVars, bitmap, geom, clip, NameVars, got, PixelVars, ZipVars>>

NextBox == ResizeBox

SpecBox == InitBox /\ [][NextBox]_vars

----------------------------------------------------------------------------
(* generateFileName, for every file name of up to MaxName characters *)

InitName ==
    /\ variant \in Variants
    /\ opts \in {o \in OptionSets(variant) : o.quality = <<>> /\ o.maxSizeKB = <<>>}
    /\ pc = "name"
    /\ Idle
    /\ bitmap = <<1, 1>>
    /\ geom = NoResize
    /\ canvas = <<>>
    /\ clip = <<>>
    /\ originalName \in NamesOf(MaxName)
    /\ fileName = <<>>
    /\ got = NothingGot
    /\ NoPixels
    /\ NoArchive

\* fileName: this.generateFileName(file.name, format)
NameFile ==
    /\ pc = "name"
    /\ fileName' = <<GenerateFileName(originalName, Format)>>
    /\ pc' = "named"
    /\ UNCHANGED <<MainVars, ImageVars, originalName, got, PixelVars, ZipVars>>

NextName == NameFile

SpecName == InitName /\ [][NextName]_vars

----------------------------------------------------------------------------
(* The module loaders, called by any number of batches of the page in any  *)
(* order: one batch after the other, or several at once, each suspended at *)
(* an await while the others run                                           *)

InitCodec ==
    /\ variant = "jsquash"
    /\ opts = NoOptions
    /\ pc = "page"
    /\ Idle
    /\ bitmap = <<1, 1>>
    /\ geom = NoResize
    /\ canvas = <<>>
    /\ clip = <<>>
    /\ originalName = <<"a">>
    /\ fileName = <<>>
    /\ got = NothingGot
    /\ NoPixels
    /\ NoArchive

\* caller k runs loadX() for format f, from warmupEncoder or from encodeX:
\* _x ??= import(...); return _x.  What it gets is the promise in _x, the
\* one of the latest import()
CallLoad(k, f) ==
    /\ pc = "page"
    /\ cache' = LoadCache(cache, f)
    /\ imports' = LoadImports(cache, imports, f)
    /\ got' = [got EXCEPT ![k][f] = LoadImports(cache, imports, f)[f]]
    /\ UNCHANGED <<BatchVars, signal, pc, LoopVars, started, cancelAt, FileVars,
                   rasters, ImageVars, NameVars, PixelVars, ZipVars>>

NextCodec ==
    \/ \E k \in Callers, f \in Formats : CallLoad(k, f)
    \/ ImportSettles

SpecCodec == InitCodec /\ [][NextCodec]_vars

----------------------------------------------------------------------------
(* compressPNGOffscreen / compressPNG: the colour quantization of a png,   *)
(* for one pixel of every colour value and every quality in percent.  The  *)
(* three colour channels go through the same assignment, so one channel    *)
(* stands for R, G and B.                                                  *)

\* colorDepth, from quality = percent / 100
ColorDepth(q) ==
    IF q >= 90 THEN Levels
    ELSE IF q >= 70 THEN 128
    ELSE IF q >= 50 THEN 64
    ELSE IF q >= 30 THEN 32
    ELSE 16

\* const step = Math.floor(256 / colorDepth)
Step(q) == Levels \div ColorDepth(q)

\* a store into the Uint8ClampedArray of ImageData
Clamped(x) == IF x > ChannelMax THEN ChannelMax ELSE IF x < 0 THEN 0 ELSE x

\* data[i] = Math.round(data[i] / step) * step
QuantizeChannel(c, step) == Clamped(Round(<<c, step>>) * step)

\* the loop over the pixels: R, G and B are quantized, data[i + 3] is not
\* written
QuantizePixel(d, q) == <<QuantizeChannel(d[1], Step(q)), d[2]>>

\* canvasToBlob sends a png through compressPNG only below quality 1.0
Quantizes(v, q) == v = "offscreen" \/ q < PngQuality

Alphas == {0, ChannelMax}

InitPng ==
    /\ variant \in {"offscreen", "canvas"}
    /\ opts \in [format : {<<"png">>},
                 quality : {<<q>> : q \in 1..PngQuality},
                 maxSizeKB : {<<>>}]
    /\ pc = "png"
    /\ Idle
    /\ bitmap = <<1, 1>>
    /\ geom = NoResize
    /\ canvas = <<>>
    /\ clip = <<>>
    /\ originalName = <<"a">>
    /\ fileName = <<>>
    /\ got = NothingGot
    /\ imageData \in (0..ChannelMax) \X Alphas
    /\ quantized = <<>>
    /\ NoArchive

\* convertToBlob / canvasToBlob of a png at options.quality
CompressPNG ==
    /\ pc = "png"
    /\ quantized' = IF Quantizes(variant, Quality)
                     THEN <<QuantizePixel(imageData, Quality)>>
                     ELSE <<imageData>>
    /\ pc' = "quantized"
    /\ UNCHANGED <<MainVars, ImageVars, NameVars, got, imageData, ZipVars>>

NextPng == CompressPNG

SpecPng == InitPng /\ [][NextPng]_vars

----------------------------------------------------------------------------
(* downloadAsZip on the records of a batch of two files with different     *)
(* names; images[k].fileName is generateFileName(file.name, format)        *)

\* the names of the files of the batch: not empty
FileNames == NamesOf(MaxName - 1) \ {<<>>}

InitZip ==
    /\ variant = "jsquash"
    /\ opts \in [format : {<<>>, <<"png">>}, quality : {<<>>}, maxSizeKB : {<<>>}]
    /\ pc = "zip"
    /\ Idle
    /\ bitmap = <<1, 1>>
    /\ geom = NoResize
    /\ canvas = <<>>
    /\ clip = <<>>
    /\ originalName = <<"a">>
    /\ fileName = <<>>
    /\ got = NothingGot
    /\ NoPixels
    /\ names \in {ns \in FileNames \X FileNames : ns[1] # ns[2]}
    /\ zip = <<>>

\* the fileName of images[k]
FileNameOf(ns, k) == GenerateFileName(ns[k], Format)

\* images.forEach((img) => zip.file(img.fileName, img.blob)): a second
\* file() under a name replaces the entry of that name
Archive(ns) ==
    [e \in {FileNameOf(ns, k) : k \in 1..Len(ns)} |->
        CHOOSE k \in 1..Len(ns) :
            /\ FileNameOf(ns, k) = e
            /\ \A j \in 1..Len(ns) : FileNameOf(ns, j) = e => j <= k]

DownloadAsZip ==
    /\ pc = "zip"
    /\ zip' = <<Archive(names)>>
    /\ pc' = "zipped"
    /\ UNCHANGED <<MainVars, ImageVars, NameVars, got, PixelVars, names>>

NextZip == DownloadAsZip

SpecZip == InitZip /\ [][NextZip]_vars

----------------------------------------------------------------------------
(* Claims *)

Lossy == Format \in {"webp", "jpeg", "avif"}

\* compressToSize has handed its result to processImage
FitReturned == pc = "ret" /\ SizeFitting

\* the search range in percent
CeilingPercent == Ceiling(variant, Format) \div Unit(variant)

\* the encoder of the file in flight, asked for q percent, fits the target
FitsAt(q) ==
    \E o \in EncodeImageData(variant, enc, Format, q * Unit(variant), cache) :
        o.ok /\ o.size <= TargetSize

\* C1: size-fit convergence.  For a lossy format and an encoder whose size
\* is non-decreasing in quality, if some integer quality in [10, ceiling]
\* fits the target, the blob returned by compressToSize fits the target and
\* no integer quality of [10, ceiling] more than 2 above the returned
\* quality fits.
C1_SizeFitConvergence ==
    (/\ FitReturned
     /\ Lossy
     /\ enc.kind = "mono"
     /\ \E q \in MinQuality..CeilingPercent : FitsAt(q))
    => /\ ret.blob # NoBlob
       /\ ret.blob.size <= TargetSize
       /\ \A q \in MinQuality..CeilingPercent : q > ret.quality + 2 => ~FitsAt(q)

\* a search that returned a fitting quality 1 or 2 below the best one
C1_Witness ==
    /\ FitReturned
    /\ Lossy
    /\ variant \in {"jsquash", "offscreen"}
    /\ enc.kind = "mono"
    /\ ret.quality > MinQuality
    /\ ret.quality < enc.thr
    /\ enc.thr < CeilingPercent
    /\ FitsAt(enc.thr)

NoProbeFitted == \A k \in 1..Len(probes) : ~probes[k][2]

\* the encoder of the file in flight produces a blob at every quality
Working == enc.kind = "mono" /\ (NeedsCodec => cache[Format] = "ok")

\* C2: size-fit fallback.  When no probe of the search fitted the target,
\* compressToSize does not fail with a working encoder: it makes one more
\* encode at the minimum quality 10 and returns that blob with
\* appliedQuality 10, whether or not it fits.
C2_Fallback ==
    /\ [](pc = "fallback" => NoProbeFitted /\ best = NoBlob)
    /\ []((FitReturned /\ ~PngBypass(variant, Format) /\ NoProbeFitted)
           => /\ ret.blob # NoBlob
              /\ ret.blob.q = Floor(variant)
              /\ ret.blob.call = Len(probes) + 1
              /\ calls = Len(probes) + 1
              /\ ret.quality = MinQuality)
    /\ [][(pc \in {"probe", "fallback"} /\ Working /\ pc' # pc /\ NoProbeFitted')
           => pc' \in {"fallback", "ret"}]_vars

\* an unreachable target: nothing fitted, and the blob returned does not fit
C2_Witness ==
    /\ FitReturned
    /\ Lossy
    /\ NoProbeFitted
    /\ Len(probes) > 0
    /\ ret.quality = MinQuality
    /\ ret.blob.size > TargetSize

InCompress == pc \in {"probe", "fallback", "pngfit"}

\* C3: compressToSize terminates for every encoder behaviour, monotone or
\* not, and makes at most 12 encode calls for an image, the fallback
\* included.
C3_BoundedSearch ==
    /\ [](calls <= MaxAttempts)
    /\ [](Len(probes) = attempts /\ calls <= attempts + 1)
    /\ (InCompress ~> ~InCompress)

\* the longest search: six probes and the fallback, on an encoder that may
\* do anything
C3_Witness ==
    /\ FitReturned
    /\ enc.kind = "any"
    /\ variant = "jsquash"
    /\ Len(probes) = 6
    /\ calls = 7

----------------------------------------------------------------------------
(* The batch *)

RecordIdx == {results[k].idx : k \in 1..Len(results)}
Succeeded == {f \in 1..n : status[f] = "ok"}
Failed == {f \in 1..n : status[f] \in {"decode", "draw", "encode", "unsupported"}}

\* C4: batch order.  The result is a subsequence of the input in input
\* order: every record belongs to an input file, the records come in
\* strictly increasing input index, no file is processed twice or has a
\* record after it failed, and there are at most as many records as files.
C4_BatchOrder ==
    /\ Len(results) <= n
    /\ \A k \in 1..Len(results) : results[k].idx \in 1..n
    /\ \A j, k \in 1..Len(results) : j < k => results[j].idx < results[k].idx
    /\ \A f \in 1..n : started[f] <= 1
    /\ \A f \in Failed : f \notin RecordIdx

\* a returned batch whose records are those of files 1 and 3: file 2 failed
C4_Witness ==
    /\ pc = "done"
    /\ n = 3
    /\ Len(results) = 2
    /\ results[1].idx = 1
    /\ results[2].idx = 3
    /\ 2 \in Failed

\* C5: progress count.  With k files processed successfully onProgress is
\* called k times, and the j-th call is onProgress(j, files.length).
C5_ProgressCount ==
    /\ Len(progress) = Cardinality(Succeeded)
    /\ \A j \in 1..Len(progress) : progress[j] = <<j, n>>

\* C6: per-file failure isolation.  processImages rejects only when the
\* warm-up does, before any file is started; a failed file does not stop
\* the loop; without cancellation every file is attempted exactly once and
\* the records returned are those of exactly the files that succeeded.
C6_FailureIsolation ==
    /\ pc = "rejected" => \A f \in 1..n : started[f] = 0 /\ status[f] = "pending"
    /\ (pc = "done" /\ signal # "aborted")
         => /\ \A f \in 1..n : started[f] = 1 /\ status[f] # "pending"
            /\ RecordIdx = Succeeded
            /\ Len(results) = Cardinality(Succeeded)

\* a batch that returned after a decode failure and an encode failure, with
\* the file between them in the result
C6_Witness ==
    /\ pc = "done"
    /\ signal # "aborted"
    /\ n = 3
    /\ status[1] = "decode"
    /\ status[2] = "ok"
    /\ status[3] = "encode"
    /\ RecordIdx = {2}

InFlight == {"support", "decode", "draw", "encode", "pngfit", "probe", "fallback", "ret"}

\* the number of files whose iteration had begun when abort() ran
Begun(c) == IF c.pc \in InFlight THEN c.i + 1 ELSE c.i

\* C7: cancellation stops the batch at the next file boundary.  Once the
\* signal is aborted no file whose iteration had not begun is started, gets
\* a record or a progress call; when abort() runs between two files the
\* result and the progress calls stay as they were, so aborting after file
\* 2 completed gives the 2 records of files 1 and 2.
C7_CancelAtBoundary ==
    signal = "aborted" =>
        LET c == cancelAt[1] IN
        /\ i <= Begun(c)
        /\ \A f \in 1..n : f > Begun(c) =>
              /\ started[f] = 0
              /\ status[f] = "pending"
              /\ f \notin RecordIdx
              /\ \A j \in 1..Len(progress) : progress[j][1] # f
        /\ c.pc \notin InFlight =>
              /\ Len(results) = c.results
              /\ Len(progress) = c.progress
              /\ RecordIdx = {f \in Succeeded : f <= c.i}

\* abort() after file 2 completed and before file 3 started: 2 records
C7_Witness ==
    /\ pc = "done"
    /\ signal = "aborted"
    /\ cancelAt[1].pc = "check"
    /\ cancelAt[1].i = 2
    /\ n > 2
    /\ Len(results) = 2
    /\ Len(progress) = 2

\* the quality compressToSize returns on a working encoder when nothing
\* interferes with its loop
RECURSIVE SearchResult(_, _, _, _, _, _, _)
SearchResult(v, f, e, a, l, h, b) ==
    IF (IF v = "canvas"
        THEN a < MaxAttemptsCanvas /\ h - l > CanvasUnit
        ELSE a < MaxAttempts /\ h - l > Window)
    THEN LET mid == IF v = "canvas" THEN (l + h) \div 2 ELSE (l + h + 1) \div 2
             o == CHOOSE x \in EncodeImageData(v, e, f, mid, cache) : TRUE
         IN IF o.size <= TargetSize
            THEN SearchResult(v, f, e, a + 1, mid, h, mid)
            ELSE SearchResult(v, f, e, a + 1, l, mid, b)
    ELSE IF b = 0 THEN l ELSE b

UndisturbedQuality ==
    LET q == SearchResult(variant, Format, enc, 0, Floor(variant),
                          Ceiling(variant, Format), 0)
    IN IF variant = "canvas" THEN (q + CanvasUnit \div 2) \div CanvasUnit ELSE q

\* C8: cancellation never preempts a file in flight.  When abort() runs
\* during a file's decode or any of its encode attempts, the file goes on
\* as if nothing had happened: its search runs to the same result, it is
\* appended and gets its progress call unless it fails on its own, and it
\* is the only file to complete after the request.
C8_NoPreemption ==
    signal = "aborted" =>
        LET c == cancelAt[1]
            k == c.i + 1
        IN /\ Len(results) <= c.results + 1
           /\ Len(progress) <= c.progress + 1
           /\ \A f \in RecordIdx : f <= Begun(c)
           /\ c.pc \in InFlight =>
                /\ started[k] = 1
                /\ pc = "done" => status[k] # "pending" /\ i = k
                /\ status[k] = "ok" =>
                      /\ Len(results) = c.results + 1
                      /\ results[Len(results)].idx = k
                      /\ Len(progress) = c.progress + 1
                /\ (i = c.i /\ FitReturned /\ Working /\ ~PngBypass(variant, Format))
                      => ret.quality = UndisturbedQuality

\* abort() in the middle of a search: the file completed all the same
C8_Witness ==
    /\ pc = "done"
    /\ signal = "aborted"
    /\ cancelAt[1].pc = "probe"
    /\ cancelAt[1].calls > 0
    /\ cancelAt[1].i = 1
    /\ status[2] = "ok"
    /\ results[Len(results)].idx = 2
    /\ results[Len(results)].appliedQuality > MinQuality

----------------------------------------------------------------------------
(* png *)

\* C9 as stated: for png compressToSize makes no search, in the jsquash
\* variant and in the offscreen variant alike: one lossless encode,
\* appliedQuality 100, whatever the target.
C9_PngBypass ==
    (SizeFitting /\ Format = "png" /\ variant \in {"jsquash", "offscreen"}) =>
        /\ pc \notin {"probe", "fallback"}
        /\ pc = "ret" => calls = 1 /\ ret.quality = PngQuality

\* C9, amended: the jsquash compressToSize makes no search for png: one
\* lossless encode, appliedQuality 100, a result that is the codec's
\* lossless output whatever the target; the offscreen and canvas variants
\* search png like the other formats and return the quality searched.
C9_PngBypassJsquash ==
    (SizeFitting /\ Format = "png") =>
        IF variant = "jsquash"
        THEN /\ pc \notin {"probe", "fallback"}
             /\ probes = <<>> /\ attempts = 0
             /\ pc = "ret" =>
                   /\ calls = 1
                   /\ ret.quality = PngQuality
                   /\ ret.blob.q = PngQuality
                   /\ Encoded(ret.blob.size) \in Raw(enc, PngQuality, 1)
        ELSE /\ pc # "pngfit"
             /\ pc = "ret" =>
                   /\ calls >= 2
                   /\ calls = Len(probes) \/ calls = Len(probes) + 1
                   /\ ret.quality < PngQuality

\* the lossless png is returned although it is larger than the target
C9_Witness ==
    /\ FitReturned
    /\ variant = "jsquash"
    /\ Format = "png"
    /\ opts.maxSizeKB = <<1>>
    /\ enc.kind = "mono"
    /\ ret.blob.size > TargetSize
    /\ ret.quality = PngQuality

\* C10: every ProcessedImage of format png that the jsquash processImage
\* builds has appliedQuality 100, with a manual quality as well as in
\* size-fitting mode.
C10_PngAppliedQuality ==
    \A k \in 1..Len(results) :
        (variant = "jsquash" /\ results[k].format = "png")
            => results[k].appliedQuality = PngQuality

----------------------------------------------------------------------------
(* Geometry *)

SrcW == bitmap[1]
SrcH == bitmap[2]

\* calculateDimensions has returned
Resized == pc \in {"mask", "drawn"}

\* a bound that is set: a positive integer
Has(m) == m # <<>> /\ m[1] > 0

\* C11: dimension clamping.  With maintainAspectRatio true, positive
\* source dimensions and positive integer bounds, the width returned by
\* calculateDimensions is at most maxWidth when maxWidth is set and the
\* height at most maxHeight when maxHeight is set, also when both bounds
\* are set and both clamps are applied one after the other.
C11_DimensionClamping ==
    (Resized /\ MaintainAspectRatio) =>
        /\ Has(geom.maxWidth) => canvas[1] <= geom.maxWidth[1]
        /\ Has(geom.maxHeight) => canvas[2] <= geom.maxHeight[1]

\* both clamps applied: the width was cut to maxWidth, the height it gave
\* was still above maxHeight, and the second clamp cut the width again
C11_Witness ==
    /\ Resized
    /\ MaintainAspectRatio
    /\ Has(geom.maxWidth)
    /\ Has(geom.maxHeight)
    /\ SrcW > geom.maxWidth[1]
    /\ geom.maxWidth[1] * SrcH > geom.maxHeight[1] * SrcW
    /\ canvas[2] = geom.maxHeight[1]
    /\ canvas[1] < geom.maxWidth[1]
    /\ canvas[1] > 0

\* the bounds are omitted or positive integers
PositiveBounds ==
    /\ geom.maxWidth = <<>> \/ geom.maxWidth[1] > 0
    /\ geom.maxHeight = <<>> \/ geom.maxHeight[1] > 0

\* the source is within every bound that is set
Satisfied ==
    /\ Has(geom.maxWidth) => SrcW <= geom.maxWidth[1]
    /\ Has(geom.maxHeight) => SrcH <= geom.maxHeight[1]

\* C12 as stated: no upscaling.  For every combination of bounds and both
\* values of maintainAspectRatio, a source that is within all the bounds
\* set comes back with exactly its own dimensions.
C12_NoUpscaling ==
    (Resized /\ PositiveBounds /\ Satisfied) => canvas = <<SrcW, SrcH>>

\* C12, amended: with maintainAspectRatio true a source within all the
\* bounds set comes back with exactly its own dimensions; with
\* maintainAspectRatio false every bound that is set replaces the source
\* dimension, whether it is smaller or larger than the source.
C12_NoUpscalingKeepAspect ==
    (Resized /\ PositiveBounds) =>
        /\ (MaintainAspectRatio /\ Satisfied) => canvas = <<SrcW, SrcH>>
        /\ ~MaintainAspectRatio =>
              /\ canvas[1] = IF Has(geom.maxWidth) THEN geom.maxWidth[1] ELSE SrcW
              /\ canvas[2] = IF Has(geom.maxHeight) THEN geom.maxHeight[1] ELSE SrcH

\* both bounds larger than the source, aspect ratio kept: nothing changes
C12_Witness ==
    /\ Resized
    /\ MaintainAspectRatio
    /\ Has(geom.maxWidth)
    /\ Has(geom.maxHeight)
    /\ SrcW < geom.maxWidth[1]
    /\ SrcH < geom.maxHeight[1]
    /\ SrcW # SrcH
    /\ canvas = <<SrcW, SrcH>>

Abs(x) == IF x < 0 THEN -x ELSE x
Max(a, b) == IF a >= b THEN a ELSE b

\* C13: aspect ratio preserved.  With maintainAspectRatio true and exactly
\* one bound set, the bounded axis is the bound, or the source value when
\* the source does not exceed the bound, and the other axis is the source
\* value scaled in proportion and rounded to the nearest integer, so that
\* |w * srcH - h * srcW| <= max(srcW, srcH) / 2.
C13_AspectRatio ==
    (Resized /\ MaintainAspectRatio) =>
        /\ (Has(geom.maxWidth) /\ geom.maxHeight = <<>>) =>
              LET m == geom.maxWidth[1] IN
              /\ canvas[1] = IF SrcW > m THEN m ELSE SrcW
              /\ SrcW <= m => canvas[2] = SrcH
              /\ SrcW > m => 2 * Abs(canvas[2] * SrcW - m * SrcH) <= SrcW
              /\ 2 * Abs(canvas[1] * SrcH - canvas[2] * SrcW) <= Max(SrcW, SrcH)
        /\ (Has(geom.maxHeight) /\ geom.maxWidth = <<>>) =>
              LET m == geom.maxHeight[1] IN
              /\ canvas[2] = IF SrcH > m THEN m ELSE SrcH
              /\ SrcH <= m => canvas[1] = SrcW
              /\ SrcH > m => 2 * Abs(canvas[1] * SrcH - m * SrcW) <= SrcH
              /\ 2 * Abs(canvas[1] * SrcH - canvas[2] * SrcW) <= Max(SrcW, SrcH)

\* a height cut to maxHeight whose scaled width is not an integer
C13_Witness ==
    /\ Resized
    /\ MaintainAspectRatio
    /\ geom.maxWidth = <<>>
    /\ Has(geom.maxHeight)
    /\ canvas[2] = geom.maxHeight[1]
    /\ canvas[2] < SrcH
    /\ canvas[1] > 0
    /\ canvas[1] * SrcH # canvas[2] * SrcW

ShorterSide == IF canvas[1] <= canvas[2] THEN canvas[1] ELSE canvas[2]

\* C14: mask radius clamp.  With cornerRadius > 0 the radius of the clip
\* path is the smaller of cornerRadius and half the shorter side of the
\* file's output dimensions: never more than that half, and exactly that
\* half once cornerRadius >= min(w, h) / 2 + 1, as with the 9999 of the
\* "Full" preset; with cornerRadius 0 there is no path and no clip.
\* (clip holds twice the radius.)
C14_MaskRadius ==
    pc = "drawn" =>
        IF CornerRadius > 0
        THEN /\ clip # <<>>
             /\ clip[1] <= ShorterSide
             /\ clip[1] <= 2 * CornerRadius
             /\ clip[1] = ShorterSide \/ clip[1] = 2 * CornerRadius
             /\ 2 * CornerRadius >= ShorterSide + 2 => clip[1] = ShorterSide
        ELSE clip = <<>>

\* the "Full" preset on a resized, non-square output
C14_Witness ==
    /\ pc = "drawn"
    /\ CornerRadius = FullRadius
    /\ canvas # bitmap
    /\ canvas[1] > canvas[2]
    /\ canvas[2] > 0
    /\ clip = <<canvas[2]>>

----------------------------------------------------------------------------
(* Failures *)

\* C15: in the jsquash and offscreen variants an encode call that gives a
\* null or zero-length output raises an error, for each of webp, avif,
\* jpeg and png, so that no ProcessedImage of a batch result has a payload
\* of size 0.
C15_NoEmptyResult ==
    variant \in {"jsquash", "offscreen"} =>
        /\ \A k \in 1..Len(results) : results[k].size > 0
        /\ pc = "ret" => ret.blob.size > 0

\* C16: a failed encode attempt inside the size-fitting search of the
\* jsquash compressToSize counts as "does not fit" and the search goes on:
\* a file leaves the search as failed only when the search is at its end
\* and no attempt of it succeeded.
C16_FailedAttemptContinues ==
    [][(/\ variant = "jsquash"
        /\ cache[Format] = "ok"
        /\ pc = "probe"
        /\ status'[i + 1] = "encode")
        => /\ calls = 0
           /\ ~LoopContinues(variant, attempts + 1, lo,
                             CurrentQuality(variant, lo, hi), signal)]_vars

----------------------------------------------------------------------------
(* Codec modules *)

\* C17: codec modules are loaded at most once.  For each format import()
\* is initiated at most once, whatever the order in which the batches of
\* the page call the loaders from warmupEncoder and from the encoders, one
\* batch after the other or several at once, before or after the import
\* settled, resolved or rejected; every caller gets the same promise, the
\* one kept in the module variable.
C17_LoadOnce ==
    \A f \in Formats :
        /\ imports[f] <= 1
        /\ imports[f] = 0 <=> cache[f] = "null"
        /\ \A k \in Callers : got[k][f] # 0 => got[k][f] = imports[f]
        /\ \A j, k \in Callers :
              (got[j][f] # 0 /\ got[k][f] # 0) => got[j][f] = got[k][f]

\* two callers hold the promise of the avif module, which has resolved,
\* and one of them called the webp loader while its import was pending
C17_Witness ==
    /\ pc = "page"
    /\ got[1]["avif"] # 0
    /\ got[2]["avif"] # 0
    /\ cache["avif"] = "ok"
    /\ got[1]["webp"] # 0
    /\ cache["webp"] = "pending"
    /\ cache["jpeg"] = "rejected"
    /\ got[2]["jpeg"] # 0

----------------------------------------------------------------------------
(* Resources, pre-flight, names *)

\* C18: one raster at a time.  At every point of a batch at most one
\* decoded source raster is alive, and none is alive between two files:
\* each file's raster is released within its own iteration, on the success
\* path and on every failure path after the decode.
C18_OneRaster ==
    /\ rasters <= 1
    /\ pc \in {"check", "support", "decode", "done"} => rasters = 0

Probed == {f \in 1..n : started[f] > 0}

\* C19: an unsupported format is a pre-flight rejection.  In the canvas
\* variant, when the host cannot encode the requested format (the 1x1
\* probe of checkFormatSupport gives an empty or null blob), the batch
\* call is rejected before any file is decoded: it never resolves, the
\* probe runs once per batch and not once per file, and no file is skipped
\* for the format.
C19_PreflightRejection ==
    (variant = "canvas" /\ Format = "avif" /\ ~avifSupported /\ n > 0) =>
        /\ \A f \in 1..n : status[f] # "unsupported"
        /\ Cardinality(Probed) <= 1
        /\ pc # "done"

Named == pc = "named"

\* the position of the last "." of a name, 0 when it has none
LastDot(s) ==
    LET ds == {k \in 1..Len(s) : s[k] = "."}
    IN IF ds = {} THEN 0 ELSE CHOOSE k \in ds : \A j \in ds : j <= k

\* C20: filename derivation.  The output name ends in "." and the target
\* format; what comes before is the original name without its last
\* ".ext" suffix when it has one (a "." followed by one or more characters
\* of an extension), and the original name unchanged when it has no "." or
\* nothing after its last ".": "p.J" with webp gives "p.webp", "p" with
\* png gives "p.png".
C20_FileName ==
    Named =>
        LET r == fileName[1]
            d == LastDot(originalName)
            len == Len(originalName)
            stem == SubSeq(r, 1, Len(r) - 2)
        IN /\ Len(r) >= 2
           /\ r[Len(r) - 1] = "."
           /\ r[Len(r)] = Format
           /\ d = 0 => stem = originalName
           /\ d = len => stem = originalName
           /\ (d > 0 /\ d < len /\ \A j \in (d + 1)..len : originalName[j] # "/")
                 => stem = SubSeq(originalName, 1, d - 1)

\* "p.J" converted to webp is "p.webp"
C20_Witness ==
    /\ Named
    /\ originalName = <<"p", ".", "J">>
    /\ Format = "webp"
    /\ fileName = << <<"p", ".", "webp">> >>

----------------------------------------------------------------------------
(* The search window *)

\* compressToSize has set up its window and made no probe yet
SearchEntered == SizeFitting /\ pc = "probe" /\ attempts = 0

\* C21 as stated: for a lossy format the search starts with lo = 10 and
\* hi = ceiling, where the ceiling is 95 for webp, 98 for jpeg and 90 for
\* avif, in both variants of part_005.
C21_SearchBounds ==
    (SearchEntered /\ Lossy /\ variant \in {"jsquash", "offscreen"})
    => /\ lo = MinQuality
       /\ hi = CeilingPerFormat(variant, Format)

\* C21: for a lossy format the search starts with lo = 10 and hi = ceiling.
\* With the codec modules the ceiling is 90 for avif and 95 for webp and
\* jpeg; with OffscreenCanvas it is 95 for webp and 98 for jpeg; the canvas
\* variant starts with lo = 0.1 and hi = 1.0.
C21_SearchBoundsPerVariant ==
    (SearchEntered /\ Lossy)
    => CASE variant = "jsquash" ->
                /\ lo = MinQuality
                /\ hi = (IF Format = "avif" THEN CeilingAvif ELSE CeilingJsquash)
         [] variant = "offscreen" ->
                /\ lo = MinQuality
                /\ hi = (IF Format = "webp" THEN CeilingWebpOffscreen ELSE CeilingOffscreen)
         [] OTHER ->
                /\ lo = MinQuality * CanvasUnit
                /\ hi = PngQuality * CanvasUnit

\* a jpeg search with the codec modules, entered with the window [10, 95]
C21_Witness ==
    /\ SearchEntered
    /\ variant = "jsquash"
    /\ Format = "jpeg"
    /\ lo = MinQuality
    /\ hi = CeilingJsquash

\* the search of compressToSize is running or has returned
InSearch ==
    /\ SizeFitting
    /\ ~PngBypass(variant, Format)
    /\ pc \in {"probe", "fallback", "ret"}

SomeProbeFitted == \E k \in 1..Len(probes) : probes[k][2]

\* C22: in every state of the size-fitting loop 10 <= lo < hi <= ceiling,
\* and every probe is made strictly inside the window.  Whenever a probe
\* has fitted, bestQuality = lo and the stored blob is the one of the encode
\* call at bestQuality, with size <= target; the blob returned and the
\* appliedQuality returned come from the same encode call, and the result
\* fits whenever some probe fitted, for every encoder behaviour.
C22_SearchInvariant ==
    /\ [](InSearch
          => /\ Floor(variant) <= lo
             /\ lo < hi
             /\ hi <= Ceiling(variant, Format)
             /\ \A k \in 1..Len(probes) :
                    /\ Floor(variant) < probes[k][1]
                    /\ probes[k][1] < Ceiling(variant, Format)
                    /\ (probes[k][2] => probes[k][1] <= lo)
                    /\ (~probes[k][2] => probes[k][1] >= hi))
    /\ []((InSearch /\ ~SomeProbeFitted /\ pc # "ret") => best = NoBlob)
    /\ []((InSearch /\ SomeProbeFitted)
          => /\ best # NoBlob
             /\ bestQ = lo
             /\ best.q = bestQ
             /\ best.size <= TargetSize
             /\ probes[best.call] = <<bestQ, TRUE>>)
    /\ []((InSearch /\ pc = "ret")
          => /\ ret.blob = best
             /\ ret.quality = Returned(variant, ret.blob.q)
             /\ (SomeProbeFitted => ret.blob.size <= TargetSize))
    /\ [][(pc = "probe" /\ attempts' = attempts + 1)
          => /\ lo < probes'[attempts'][1]
             /\ probes'[attempts'][1] < hi
             /\ lo <= lo'
             /\ hi' <= hi]_vars

\* a search on an encoder that may do anything: probes that fitted and
\* probes that did not, and a result that fits
C22_Witness ==
    /\ InSearch
    /\ pc = "ret"
    /\ enc.kind = "any"
    /\ SomeProbeFitted
    /\ \E k \in 1..Len(probes) : ~probes[k][2]
    /\ ret.quality = bestQ
    /\ ret.blob.size <= TargetSize
    /\ lo > MinQuality

----------------------------------------------------------------------------
(* Warm-up *)

\* C23: with the codec modules, once processImages has run up to its first
\* await, the import of the module of the format the batch encodes with
\* (webp when options.format is omitted) has been started, exactly once:
\* before any file is decoded, and also when the batch is empty or is
\* cancelled before its first file.
C23_WarmupBeforeLoop ==
    (NeedsCodec /\ pc # "start") => imports[Format] = 1

----------------------------------------------------------------------------
(* Quantization *)

\* the multiples of step a channel value can be compared with
Multiples(step) == {m * step : m \in 0..Levels}

\* C24: with the levels chosen by the thresholds and step =
\* floor(256 / levels), the quantized value of every colour channel, for
\* every input 0..255, is a multiple of step and no multiple of step is
\* nearer to the input; alpha is unchanged.
C24_Quantization ==
    (pc = "quantized" /\ Quantizes(variant, Quality))
    => LET step == Step(Quality)
           in == imageData[1]
           out == quantized[1][1]
       IN /\ out % step = 0
          /\ \A m \in Multiples(step) : Abs(out - in) <= Abs(m - in)
          /\ quantized[1][2] = imageData[2]

----------------------------------------------------------------------------
(* Fit inside the box *)

\* the smaller of two non-negative fractions
MinFraction(x, y) == IF x[1] * y[2] <= y[1] * x[2] THEN x ELSE y

\* s = min(1, maxW / srcW, maxH / srcH)
Scale ==
    MinFraction(<<1, 1>>,
                MinFraction(<<geom.maxWidth[1], SrcW>>, <<geom.maxHeight[1], SrcH>>))

\* both axes scaled by s, each rounded to the nearest integer
FitInside == <<Round(<<SrcW * Scale[1], Scale[2]>>), Round(<<SrcH * Scale[1], Scale[2]>>)>>

BothBounds == Has(geom.maxWidth) /\ Has(geom.maxHeight)

\* C25: with maintainAspectRatio true and both bounds set and positive,
\* the two clamps of calculateDimensions, width first and then height on
\* the adjusted value, return the same width and height as scaling both
\* axes by s = min(1, maxW / srcW, maxH / srcH) and rounding each to the
\* nearest integer.
C25_FitInsideBox ==
    (pc = "boxed" /\ MaintainAspectRatio /\ BothBounds) => canvas = FitInside

\* C26: for source dimensions of at least 1 and bounds that are omitted or
\* positive integers, calculateDimensions returns a width of at least 1 and
\* a height of at least 1.
C26_PositiveDimensions ==
    (Resized /\ variant = "jsquash" /\ PositiveBounds)
    => canvas[1] >= 1 /\ canvas[2] >= 1

----------------------------------------------------------------------------
(* The top of the window *)

AllProbesFitted == Len(probes) > 0 /\ \A k \in 1..Len(probes) : probes[k][2]

\* C27: in the search of part_005, for every encoder behaviour and every
\* target, no encode call is made at the ceiling quality, the quality
\* returned is at most ceiling - 2, and it is ceiling - 2 (93 for the
\* ceiling 95, 88 for 90) when every probe fits the target.
C27_CeilingNeverEncoded ==
    (InSearch /\ variant \in {"jsquash", "offscreen"})
    => /\ \A k \in 1..Len(probes) : probes[k][1] < Ceiling(variant, Format)
       /\ best.q < Ceiling(variant, Format)
       /\ pc = "fallback" => FallbackQuality(lo, hi) < Ceiling(variant, Format)
       /\ pc = "ret"
          => /\ ret.blob.q <= Ceiling(variant, Format) - 2
             /\ ret.quality <= Ceiling(variant, Format) - 2
             /\ AllProbesFitted => ret.quality = Ceiling(variant, Format) - 2

\* every probe fitted: 93 is returned for webp with the codec modules
C27_Witness ==
    /\ InSearch
    /\ pc = "ret"
    /\ variant = "jsquash"
    /\ Format = "webp"
    /\ AllProbesFitted
    /\ hi = CeilingJsquash
    /\ ret.quality = CeilingJsquash - 2
    /\ ret.blob.q = CeilingJsquash - 2

----------------------------------------------------------------------------
(* The archive *)

\* C28: the records of files with different names have different output
\* file names, and the archive downloadAsZip builds has one entry for each
\* ProcessedImage, also when the two names differ only in their extension.
C28_OneEntryPerImage ==
    pc = "zipped"
    => /\ \A j, k \in 1..Len(names) :
              j # k => FileNameOf(names, j) # FileNameOf(names, k)
       /\ Cardinality(DOMAIN zip[1]) = Len(names)

----------------------------------------------------------------------------
(* A failed import *)

\* C29: once the import of a format's module has been rejected, the module
\* variable keeps the rejected promise: no call of the loader starts another
\* import, every later caller gets that same promise, and every encode of
\* that format throws.
C29_FailedLoadPermanent ==
    /\ [][\A f \in Formats :
            cache[f] = "rejected"
            => /\ cache'[f] = "rejected"
               /\ imports'[f] = imports[f]
               /\ \A k \in Callers :
                      got'[k][f] # got[k][f] => got'[k][f] = imports[f]]_vars
    /\ [](\A f \in Formats :
            cache[f] = "rejected"
            => /\ imports[f] = 1
               /\ \A e \in FewEncoders \cup {AnyEnc}, q \in {MinQuality, PngQuality} :
                      EncodeJsquash(e, f, q, cache) = {Thrown})

\* the import of the webp module was rejected, and both callers have called
\* the loader and hold the one promise
C29_Witness ==
    /\ pc = "page"
    /\ cache["webp"] = "rejected"
    /\ imports["webp"] = 1
    /\ got[1]["webp"] = 1
    /\ got[2]["webp"] = 1
    /\ cache["png"] = "null"

----------------------------------------------------------------------------
(* The report of the page *)

NoFileFailed == \A k \in 1..n : status[k] \in {"ok", "pending"}

\* C30: whenever cancel is pressed during a batch, the page reports the
\* batch as cancelled only if some selected file was not started because of
\* the cancellation; a batch that processed every file, its last file being
\* in flight when cancel was pressed, is reported as a success.
C30_CancelClassification ==
    (Reported /\ pc = "done" /\ NoFileFailed)
    => /\ Toast \in {"cancelled", "cancelledAll"} => \E k \in 1..n : started[k] = 0
       /\ Len(results) = n => Toast = "success"

====
